---- MODULE Spec2Model ----
(***************************************************************************)
(* Luxury Store API (src/main.py, src/schemas.py): the cart handlers       *)
(* create_or_get_cart, cart_add, cart_remove and the seed handler, each    *)
(* as the sequence of document-store round trips the code performs.        *)
(* Every store call (find_one, create_document, update_one, delete_many)   *)
(* is one atomic step; the Python between two store calls is local to the  *)
(* request and is folded into the step of the store call that follows it.  *)
(***************************************************************************)
EXTENDS Integers, Sequences, FiniteSets, TLC

\* ---------------------------------------------------------------- bounds
\* Requests accepted in one behaviour of the concurrent specification.
MaxRequests == 2
\* Requests accepted in one behaviour of the one-at-a-time specification.
MaxSeqRequests == 3
\* Largest quantity a request carries.
MaxQty == 2
\* Documents the category / product collection may hold before the first request.
MaxManual == 1

\* CartItem.quantity: Field(1, ge=1)
MinQuantity == 1
\* HTTP status codes
StatusOk == 200
StatusNotFound == 404

\* Request handler threads (FastAPI runs sync endpoints on a thread pool).
Procs == {"w1", "w2"}
\* The worker of the one-request-at-a-time specification.
SeqProc == "w1"

SessionIds == {"s1", "s2"}
Skus == {"A", "B"}
ProductIds == {"P1"}

\* ---------------------------------------------------------------- schemas
CartItem == [product_id : ProductIds, sku : Skus, quantity : MinQuantity..MaxQty]

\* Item lists a POST /api/cart body may carry (Cart.items, default empty).
BodyItems ==
    {<<>>} \cup
    {<<[product_id |-> "P1", sku |-> s, quantity |-> MinQuantity]>> : s \in Skus} \cup
    {<<[product_id |-> "P1", sku |-> "A", quantity |-> MinQuantity],
       [product_id |-> "P1", sku |-> s, quantity |-> MinQuantity]>> : s \in Skus}

DefaultItem == [product_id |-> "P1", sku |-> "A", quantity |-> MinQuantity]

\* find_one's None
NoDoc == [id |-> 0, session_id |-> "", items |-> <<>>]

NoReq == [op |-> "none", session_id |-> "s1", item |-> DefaultItem,
          items |-> <<>>, force |-> FALSE]

Requests ==
    {[op |-> "cart", session_id |-> s, item |-> DefaultItem, items |-> b, force |-> FALSE] :
        s \in SessionIds, b \in BodyItems} \cup
    {[op |-> "add", session_id |-> s, item |-> it, items |-> <<>>, force |-> FALSE] :
        s \in SessionIds, it \in CartItem} \cup
    {[op |-> "remove", session_id |-> s,
      item |-> [product_id |-> "P1", sku |-> k, quantity |-> MinQuantity],
      items |-> <<>>, force |-> FALSE] :
        s \in SessionIds, k \in Skus}

SeedRequests ==
    {[op |-> "seed", session_id |-> "s1", item |-> DefaultItem, items |-> <<>>, force |-> f] :
        f \in BOOLEAN}

\* ---------------------------------------------------------------- seed data
categories ==
    << [name |-> "Women", slug |-> "women", gender |-> "women"],
       [name |-> "Men", slug |-> "men", gender |-> "men"],
       [name |-> "Kids", slug |-> "kids", gender |-> "kids"] >>

sample_products ==
    << [title |-> "Silk Emerald Top", price |-> 890, gender |-> "women",
        type |-> "tops", category |-> "women", featured |-> TRUE],
       [title |-> "Tailored Wool Trousers", price |-> 760, gender |-> "men",
        type |-> "bottoms", category |-> "men", featured |-> TRUE],
       [title |-> "Kid's Party Dress", price |-> 520, gender |-> "kids",
        type |-> "dress", category |-> "kids", featured |-> TRUE],
       [title |-> "Calf Leather Oxfords", price |-> 980, gender |-> "men",
        type |-> "shoes", category |-> "men", featured |-> FALSE] >>

\* A document put into a collection by hand, outside the seed set.
ManualCategory == [name |-> "Manual", slug |-> "manual", gender |-> "women"]
ManualProduct == [title |-> "Manual", price |-> 1, gender |-> "women",
                  type |-> "tops", category |-> "manual", featured |-> FALSE]

RECURSIVE Repeat(_, _)
Repeat(x, n) == IF n = 0 THEN <<>> ELSE Append(Repeat(x, n - 1), x)

VARIABLES
    carts,      \* db["cart"]: documents in insertion (natural) order
    category,   \* db["category"]
    product,    \* db["product"]
    nextId,     \* next _id the store assigns
    pc,         \* each handler thread's position
    req,        \* the request a thread is serving (or served last)
    cart,       \* cart_add / cart_remove: the local `cart` as fetched
    resp,       \* document returned by a cart handler
    status,     \* HTTP status of the last response
    msg,        \* seed's response message
    idx,        \* seed: position in the insert loops
    before,     \* history: the three collections when the latest request was accepted
    prev,       \* history: kind of the request accepted before the latest one
    latest,     \* history: the thread that accepted the latest request
    nreq        \* requests accepted so far

vars == <<carts, category, product, nextId, pc, req, cart, resp, status, msg, idx,
          before, prev, latest, nreq>>

\* ---------------------------------------------------------------- store
\* db["cart"].find_one({"session_id": s}): first match in natural order, or None.
FindBySession(cs, s) ==
    IF \E i \in DOMAIN cs : cs[i].session_id = s
    THEN cs[CHOOSE i \in DOMAIN cs :
                /\ cs[i].session_id = s
                /\ \A j \in 1..(i - 1) : cs[j].session_id # s]
    ELSE NoDoc

\* db["cart"].find_one({"_id": id})
FindById(cs, id) ==
    IF \E i \in DOMAIN cs : cs[i].id = id
    THEN cs[CHOOSE i \in DOMAIN cs : cs[i].id = id]
    ELSE NoDoc

\* create_document("cart", data): insert one document under a fresh _id.
CreateDocument(cs, id, data) ==
    Append(cs, [id |-> id, session_id |-> data.session_id, items |-> data.items])

\* db["cart"].update_one({"_id": id}, {"$set": {"items": items}})
UpdateOne(cs, id, items) ==
    [i \in DOMAIN cs |-> IF cs[i].id = id THEN [cs[i] EXCEPT !.items = items] ELSE cs[i]]

\* estimated_document_count()
EstimatedDocumentCount(coll) == Len(coll)

\* ---------------------------------------------------------------- cart logic
\* Index of the first line whose sku matches (the for loop stops at it), 0 if none.
FirstMatch(items, sku) ==
    IF \E i \in DOMAIN items : items[i].sku = sku
    THEN CHOOSE i \in DOMAIN items :
            /\ items[i].sku = sku
            /\ \A j \in 1..(i - 1) : items[j].sku # sku
    ELSE 0

\* Faulty variant: the merge assigns the quantity instead of adding to it.
AddItemAssign(items, item) ==
    IF FirstMatch(items, item.sku) # 0
    THEN [items EXCEPT ![FirstMatch(items, item.sku)].quantity = item.quantity]
    ELSE Append(items, item)

\* Faulty variant: a new line is put first instead of last.
AddItemPrepend(items, item) ==
    IF FirstMatch(items, item.sku) # 0
    THEN [items EXCEPT ![FirstMatch(items, item.sku)].quantity = @ + item.quantity]
    ELSE <<item>> \o items

\* cart_add, lines 216-224: merge into the first matching line, else append.
AddItem(items, item) ==
    IF FirstMatch(items, item.sku) # 0
    THEN [items EXCEPT ![FirstMatch(items, item.sku)].quantity = @ + item.quantity]
    ELSE Append(items, item)

\* Faulty variant: only the first matching line is dropped.
RemoveFirstSku(items, sku) ==
    IF FirstMatch(items, sku) = 0
    THEN items
    ELSE SubSeq(items, 1, FirstMatch(items, sku) - 1) \o
         SubSeq(items, FirstMatch(items, sku) + 1, Len(items))

\* cart_remove, line 235: keep every line whose sku differs.
RemoveSku(items, sku) ==
    SelectSeq(items, LAMBDA it : it.sku # sku)

\* The document create_or_get_cart inserts: cart.dict().
CartDict(r) == [session_id |-> r.session_id, items |-> r.items]

\* The document cart_add inserts for a session without a cart.
EmptyCart(r) == [session_id |-> r.session_id, items |-> <<>>]

\* Faulty variant: the item is merged into the list the store holds at the write.
AddWriteStored(fetched, stored, item) == AddItem(stored.items, item)

\* The list cart_add writes back: computed from the items it fetched.
AddWrite(fetched, stored, item) == AddItem(fetched.items, item)

\* Faulty variant: the `not` of `if not req.force` is lost.
AlreadySeededForced(force, cat, prod) ==
    /\ force
    /\ EstimatedDocumentCount(cat) > 0
    /\ EstimatedDocumentCount(prod) > 0

\* seed, lines 62-63: the early return.
AlreadySeeded(force, cat, prod) ==
    /\ ~force
    /\ EstimatedDocumentCount(cat) > 0
    /\ EstimatedDocumentCount(prod) > 0

\* Faulty variant: the product collection is not cleared.
DeleteNoProducts(prod) == prod

\* db["product"].delete_many({})
DeleteManyProducts(prod) == <<>>

\* ---------------------------------------------------------------- requests
Snapshot == [carts |-> carts, category |-> category, product |-> product]

\* What the history keeps of a request: its kind and its force flag.
Kind(r) == [op |-> r.op, force |-> r.force]

Accept(p, r, limit) ==
    /\ pc[p] = "idle"
    /\ nreq < limit
    /\ req' = [req EXCEPT ![p] = r]
    /\ prev' = IF latest = "" THEN Kind(NoReq) ELSE Kind(req[latest])
    /\ before' = Snapshot
    /\ latest' = p
    /\ cart' = [cart EXCEPT ![p] = NoDoc]
    /\ resp' = [resp EXCEPT ![p] = NoDoc]
    /\ status' = [status EXCEPT ![p] = 0]
    /\ msg' = [msg EXCEPT ![p] = ""]
    /\ idx' = [idx EXCEPT ![p] = 0]
    /\ nreq' = nreq + 1
    /\ UNCHANGED <<carts, category, product, nextId>>

\* A cart request arrives and is routed to its handler.
StartCart(p, limit) ==
    \E r \in Requests :
        /\ Accept(p, r, limit)
        /\ pc' = [pc EXCEPT ![p] = CASE r.op = "cart" -> "c_find"
                                     [] r.op = "add" -> "a_find"
                                     [] OTHER -> "r_find"]

StartSeed(p, limit) ==
    \E r \in SeedRequests :
        /\ Accept(p, r, limit)
        /\ pc' = [pc EXCEPT ![p] = "s_check"]

Return(p, code, doc) ==
    /\ pc' = [pc EXCEPT ![p] = "idle"]
    /\ status' = [status EXCEPT ![p] = code]
    /\ resp' = [resp EXCEPT ![p] = doc]

Local == <<req, prev, before, latest, nreq, idx, msg>>
Catalog == <<category, product>>

\* ---------------------------------------------------------------- create_or_get_cart
\* line 199-200, 203
CartFind(p) ==
    /\ pc[p] = "c_find"
    /\ IF FindBySession(carts, req[p].session_id) # NoDoc
       THEN Return(p, StatusOk, FindBySession(carts, req[p].session_id))
       ELSE /\ pc' = [pc EXCEPT ![p] = "c_create"]
            /\ UNCHANGED <<status, resp>>
    /\ UNCHANGED <<carts, nextId, cart, Catalog, Local>>

\* line 201
CartCreate(p) ==
    /\ pc[p] = "c_create"
    /\ carts' = CreateDocument(carts, nextId, CartDict(req[p]))
    /\ nextId' = nextId + 1
    /\ pc' = [pc EXCEPT ![p] = "c_refind"]
    /\ UNCHANGED <<cart, resp, status, Catalog, Local>>

\* line 202-203
CartRefind(p) ==
    /\ pc[p] = "c_refind"
    /\ Return(p, StatusOk, FindBySession(carts, req[p].session_id))
    /\ UNCHANGED <<carts, nextId, cart, Catalog, Local>>

\* ---------------------------------------------------------------- cart_add
\* line 211-212
AddFind(p) ==
    /\ pc[p] = "a_find"
    /\ IF FindBySession(carts, req[p].session_id) # NoDoc
       THEN /\ cart' = [cart EXCEPT ![p] = FindBySession(carts, req[p].session_id)]
            /\ pc' = [pc EXCEPT ![p] = "a_update"]
       ELSE /\ pc' = [pc EXCEPT ![p] = "a_create"]
            /\ UNCHANGED cart
    /\ UNCHANGED <<carts, nextId, resp, status, Catalog, Local>>

\* line 213
AddCreate(p) ==
    /\ pc[p] = "a_create"
    /\ carts' = CreateDocument(carts, nextId, EmptyCart(req[p]))
    /\ nextId' = nextId + 1
    /\ pc' = [pc EXCEPT ![p] = "a_refind"]
    /\ UNCHANGED <<cart, resp, status, Catalog, Local>>

\* line 214
AddRefind(p) ==
    /\ pc[p] = "a_refind"
    /\ cart' = [cart EXCEPT ![p] = FindBySession(carts, req[p].session_id)]
    /\ pc' = [pc EXCEPT ![p] = "a_update"]
    /\ UNCHANGED <<carts, nextId, resp, status, Catalog, Local>>

\* line 216-226
AddUpdate(p) ==
    /\ pc[p] = "a_update"
    /\ carts' = UpdateOne(carts, cart[p].id,
                          AddWrite(cart[p], FindById(carts, cart[p].id), req[p].item))
    /\ pc' = [pc EXCEPT ![p] = "a_fetch"]
    /\ UNCHANGED <<nextId, cart, resp, status, Catalog, Local>>

\* line 227-228
AddFetch(p) ==
    /\ pc[p] = "a_fetch"
    /\ Return(p, StatusOk, FindById(carts, cart[p].id))
    /\ UNCHANGED <<carts, nextId, cart, Catalog, Local>>

\* ---------------------------------------------------------------- cart_remove
\* Faulty variant: cart_remove gets or creates the cart, as cart_add does.
RemoveMissingCreates(p) ==
    /\ carts' = CreateDocument(carts, nextId, EmptyCart(req[p]))
    /\ nextId' = nextId + 1
    /\ Return(p, StatusOk, NoDoc)
    /\ UNCHANGED cart

\* What cart_remove does when find_one returns None: raise HTTPException(404).
RemoveMissing(p) ==
    /\ Return(p, StatusNotFound, NoDoc)
    /\ UNCHANGED <<carts, nextId, cart>>

\* line 232-234
RemoveFind(p) ==
    /\ pc[p] = "r_find"
    /\ IF FindBySession(carts, req[p].session_id) # NoDoc
       THEN /\ cart' = [cart EXCEPT ![p] = FindBySession(carts, req[p].session_id)]
            /\ pc' = [pc EXCEPT ![p] = "r_update"]
            /\ UNCHANGED <<carts, nextId, resp, status>>
       ELSE RemoveMissing(p)
    /\ UNCHANGED <<Catalog, Local>>

\* line 235-236
RemoveUpdate(p) ==
    /\ pc[p] = "r_update"
    /\ carts' = UpdateOne(carts, cart[p].id, RemoveSku(cart[p].items, req[p].item.sku))
    /\ pc' = [pc EXCEPT ![p] = "r_fetch"]
    /\ UNCHANGED <<nextId, cart, resp, status, Catalog, Local>>

\* line 237
RemoveFetch(p) ==
    /\ pc[p] = "r_fetch"
    /\ Return(p, StatusOk, FindById(carts, cart[p].id))
    /\ UNCHANGED <<carts, nextId, cart, Catalog, Local>>

\* ---------------------------------------------------------------- seed
SeedFrame == <<carts, nextId, cart, resp, req, prev, before, latest, nreq>>

\* line 62-64
SeedCheck(p) ==
    /\ pc[p] = "s_check"
    /\ IF AlreadySeeded(req[p].force, category, product)
       THEN /\ pc' = [pc EXCEPT ![p] = "idle"]
            /\ status' = [status EXCEPT ![p] = StatusOk]
            /\ msg' = [msg EXCEPT ![p] = "Already seeded"]
       ELSE /\ pc' = [pc EXCEPT ![p] = "s_del_cat"]
            /\ UNCHANGED <<status, msg>>
    /\ UNCHANGED <<Catalog, idx, SeedFrame>>

\* line 66
SeedDeleteCategories(p) ==
    /\ pc[p] = "s_del_cat"
    /\ category' = <<>>
    /\ pc' = [pc EXCEPT ![p] = "s_del_prod"]
    /\ UNCHANGED <<product, status, msg, idx, SeedFrame>>

\* line 67
SeedDeleteProducts(p) ==
    /\ pc[p] = "s_del_prod"
    /\ product' = DeleteManyProducts(product)
    /\ pc' = [pc EXCEPT ![p] = "s_cats"]
    /\ idx' = [idx EXCEPT ![p] = 1]
    /\ UNCHANGED <<category, status, msg, SeedFrame>>

\* line 75-76: one create_document per pass of the loop
SeedInsertCategory(p) ==
    /\ pc[p] = "s_cats"
    /\ category' = Append(category, categories[idx[p]])
    /\ IF idx[p] < Len(categories)
       THEN /\ idx' = [idx EXCEPT ![p] = idx[p] + 1]
            /\ UNCHANGED pc
       ELSE /\ idx' = [idx EXCEPT ![p] = 1]
            /\ pc' = [pc EXCEPT ![p] = "s_prods"]
    /\ UNCHANGED <<product, status, msg, SeedFrame>>

\* line 154-157
SeedInsertProduct(p) ==
    /\ pc[p] = "s_prods"
    /\ product' = Append(product, sample_products[idx[p]])
    /\ IF idx[p] < Len(sample_products)
       THEN /\ idx' = [idx EXCEPT ![p] = idx[p] + 1]
            /\ UNCHANGED <<pc, status, msg>>
       ELSE /\ idx' = [idx EXCEPT ![p] = 0]
            /\ pc' = [pc EXCEPT ![p] = "idle"]
            /\ status' = [status EXCEPT ![p] = StatusOk]
            /\ msg' = [msg EXCEPT ![p] = "seeded"]
    /\ UNCHANGED <<category, SeedFrame>>

\* ---------------------------------------------------------------- specifications
\* No request accepted yet, no cart in the store.
Fresh ==
    /\ carts = <<>>
    /\ nextId = 1
    /\ pc = [p \in Procs |-> "idle"]
    /\ req = [p \in Procs |-> NoReq]
    /\ cart = [p \in Procs |-> NoDoc]
    /\ resp = [p \in Procs |-> NoDoc]
    /\ status = [p \in Procs |-> 0]
    /\ msg = [p \in Procs |-> ""]
    /\ idx = [p \in Procs |-> 0]
    /\ prev = Kind(NoReq)
    /\ latest = ""
    /\ before = [carts |-> <<>>, category |-> category, product |-> product]
    /\ nreq = 0

\* An empty store.
Init ==
    /\ category = <<>>
    /\ product = <<>>
    /\ Fresh

\* A store whose category and product collections hold anything.
InitSeq ==
    /\ category \in {Repeat(ManualCategory, n) : n \in 0..MaxManual}
    /\ product \in {Repeat(ManualProduct, n) : n \in 0..MaxManual}
    /\ Fresh

CartStep(p) ==
    \/ CartFind(p) \/ CartCreate(p) \/ CartRefind(p)
    \/ AddFind(p) \/ AddCreate(p) \/ AddRefind(p) \/ AddUpdate(p) \/ AddFetch(p)
    \/ RemoveFind(p) \/ RemoveUpdate(p) \/ RemoveFetch(p)

SeedStep(p) ==
    \/ SeedCheck(p) \/ SeedDeleteCategories(p) \/ SeedDeleteProducts(p)
    \/ SeedInsertCategory(p) \/ SeedInsertProduct(p)

\* Cart requests served concurrently by the handler threads.
Next == \E p \in Procs : StartCart(p, MaxRequests) \/ CartStep(p)

Spec == Init /\ [][Next]_vars

\* Requests served one at a time: each runs to its response before the next arrives.
NextSeq ==
    \/ StartCart(SeqProc, MaxSeqRequests) \/ CartStep(SeqProc)
    \/ StartSeed(SeqProc, MaxSeqRequests) \/ SeedStep(SeqProc)

SpecSeq == InitSeq /\ [][NextSeq]_vars

\* ---------------------------------------------------------------- properties
\* Thread p has answered a request of kind op and accepted no other since.
Done(p, op) == pc[p] = "idle" /\ req[p].op = op /\ status[p] # 0

\* Total quantity the lines of sku carry.
RECURSIVE Qty(_, _)
Qty(items, sku) ==
    IF items = <<>> THEN 0
    ELSE (IF Head(items).sku = sku THEN Head(items).quantity ELSE 0) + Qty(Tail(items), sku)

\* items without the lines of sku, in order.
RECURSIVE Without(_, _)
Without(items, sku) ==
    IF items = <<>> THEN <<>>
    ELSE IF Head(items).sku = sku THEN Without(Tail(items), sku)
         ELSE <<Head(items)>> \o Without(Tail(items), sku)

\* The session's cart when the latest request was accepted, and now.
PriorCart(s) == FindBySession(before.carts, s)
PriorItems(s) == PriorCart(s).items
NowItems(s) == FindBySession(carts, s).items

\* Carts of the other sessions are as they were when the latest request was accepted.
OthersUntouched(s) ==
    \A o \in SessionIds \ {s} : FindBySession(carts, o) = FindBySession(before.carts, o)

\* C1: the cart collection holds at most one Cart document for each session_id,
\* whatever the interleaving of the cart requests.
C1_OneCartPerSession ==
    \A i, j \in DOMAIN carts : carts[i].session_id = carts[j].session_id => i = j

\* C2: two add_item calls for one session with different skus that read the same
\* prior items list of the same cart document both succeed, and the persisted
\* cart then holds the addition of one of them only: the other's is lost.
C2_LostUpdate ==
    \A p, q \in Procs :
        ( /\ p # q
          /\ Done(p, "add") /\ Done(q, "add")
          /\ req[p].session_id = req[q].session_id
          /\ req[p].item.sku # req[q].item.sku
          /\ cart[p] = cart[q] )
        =>
        LET prior == cart[p].items
            final == FindById(carts, cart[p].id).items
        IN  /\ status[p] = StatusOk /\ status[q] = StatusOk
            /\ Len(final) <= Len(prior) + 1
            /\ \E w \in {p, q} : \E l \in {p, q} \ {w} :
                  /\ Qty(final, req[w].item.sku) =
                        Qty(prior, req[w].item.sku) + req[w].item.quantity
                  /\ Qty(final, req[l].item.sku) = Qty(prior, req[l].item.sku)

\* C2 witness: the two calls were the only requests, so they ran concurrently; both
\* read the empty list of the same cart, and one line is persisted.
C2_Witness ==
    /\ nreq = 2
    /\ Done("w1", "add") /\ Done("w2", "add")
    /\ status["w1"] = StatusOk /\ status["w2"] = StatusOk
    /\ req["w1"].session_id = req["w2"].session_id
    /\ req["w1"].item.sku # req["w2"].item.sku
    /\ cart["w1"] = cart["w2"] /\ cart["w1"] # NoDoc /\ cart["w1"].items = <<>>
    /\ FindById(carts, cart["w1"].id).items = <<req["w2"].item>>
    /\ resp["w1"].items = <<req["w1"].item>>

\* C3: add_item run alone with a sku the cart already holds keeps the number and
\* order of the lines, adds item.quantity to the (first) line of that sku and
\* leaves every other line, and every other cart, unchanged.
C3_AddMerges ==
    LET s == req[SeqProc].session_id
        item == req[SeqProc].item
        prior == PriorItems(s)
        now == NowItems(s)
        k == FirstMatch(prior, item.sku)
    IN  (Done(SeqProc, "add") /\ k # 0) =>
            /\ status[SeqProc] = StatusOk
            /\ Len(now) = Len(prior)
            /\ \A i \in DOMAIN prior :
                  /\ now[i].sku = prior[i].sku
                  /\ now[i].product_id = prior[i].product_id
                  /\ now[i].quantity =
                        IF i = k THEN prior[i].quantity + item.quantity
                        ELSE prior[i].quantity
            /\ resp[SeqProc].items = now
            /\ OthersUntouched(s)

\* C3 witness: sku A with the largest quantity added twice to a fresh session gives
\* one line of sku A with twice that quantity.
C3_Witness ==
    /\ Done(SeqProc, "add") /\ prev.op = "add" /\ nreq = 2
    /\ req[SeqProc].item.sku = "A" /\ req[SeqProc].item.quantity = MaxQty
    /\ PriorItems(req[SeqProc].session_id) =
          <<[product_id |-> "P1", sku |-> "A", quantity |-> MaxQty]>>
    /\ NowItems(req[SeqProc].session_id) =
          <<[product_id |-> "P1", sku |-> "A", quantity |-> MaxQty + MaxQty]>>

\* C4: add_item run alone with a sku the cart does not hold appends the item as
\* the last line; the prior lines keep their content and order.
C4_AddAppends ==
    LET s == req[SeqProc].session_id
        item == req[SeqProc].item
        prior == PriorItems(s)
        now == NowItems(s)
    IN  (Done(SeqProc, "add") /\ FirstMatch(prior, item.sku) = 0) =>
            /\ status[SeqProc] = StatusOk
            /\ Len(now) = Len(prior) + 1
            /\ now[Len(now)] = item
            /\ \A i \in DOMAIN prior : now[i] = prior[i]
            /\ resp[SeqProc].items = now
            /\ OthersUntouched(s)

\* C4 witness: sku A then sku B added to a fresh session gives the lines A, B.
C4_Witness ==
    /\ Done(SeqProc, "add") /\ prev.op = "add" /\ nreq = 2
    /\ req[SeqProc].item.sku = "B"
    /\ Len(PriorItems(req[SeqProc].session_id)) = 1
    /\ PriorItems(req[SeqProc].session_id)[1].sku = "A"
    /\ Len(NowItems(req[SeqProc].session_id)) = 2
    /\ NowItems(req[SeqProc].session_id)[1].sku = "A"
    /\ NowItems(req[SeqProc].session_id)[2].sku = "B"

\* C5: remove_item run alone on a session that has a cart leaves exactly the
\* prior lines whose sku differs, in their order; with a sku the cart does not
\* hold the items are unchanged; it answers 200 either way.
C5_RemoveFilters ==
    LET s == req[SeqProc].session_id
        sku == req[SeqProc].item.sku
        prior == PriorItems(s)
        now == NowItems(s)
    IN  (Done(SeqProc, "remove") /\ PriorCart(s) # NoDoc) =>
            /\ status[SeqProc] = StatusOk
            /\ now = Without(prior, sku)
            /\ (FirstMatch(prior, sku) = 0 => now = prior)
            /\ \A i \in DOMAIN now : now[i].sku # sku
            /\ resp[SeqProc].items = now
            /\ OthersUntouched(s)

\* C5 witness: a sku held by two lines is removed from a cart that also holds
\* another line.
C5_Witness ==
    /\ Done(SeqProc, "remove")
    /\ Len(PriorItems(req[SeqProc].session_id)) = 3
    /\ Len(NowItems(req[SeqProc].session_id)) = 1

\* C5 witness of the no-op: the sku is not in a cart that holds a line.
C5_WitnessAbsent ==
    /\ Done(SeqProc, "remove") /\ status[SeqProc] = StatusOk
    /\ PriorItems(req[SeqProc].session_id) # <<>>
    /\ FirstMatch(PriorItems(req[SeqProc].session_id), req[SeqProc].item.sku) = 0

\* C6: the step of remove_item that finds no cart for its session answers 404 and
\* leaves the cart collection as it is, under any interleaving.
C6_RemoveMissing ==
    [][\A p \in Procs :
          ( /\ pc[p] = "r_find"
            /\ pc'[p] # "r_find"
            /\ FindBySession(carts, req[p].session_id) = NoDoc )
          => ( /\ pc'[p] = "idle"
               /\ status'[p] = StatusNotFound
               /\ carts' = carts )]_vars

\* C6 witness: a remove was answered 404 while another session has a cart.
C6_Witness ==
    \E p \in Procs :
        /\ Done(p, "remove") /\ status[p] = StatusNotFound
        /\ FindBySession(carts, req[p].session_id) = NoDoc
        /\ carts # <<>>

\* C7: get_or_create for a session without a cart creates and returns a cart with
\* an empty items list, whatever the body; for a session with a cart it returns
\* that cart unchanged.
C7_GetOrCreate ==
    LET s == req[SeqProc].session_id
    IN  Done(SeqProc, "cart") =>
            /\ status[SeqProc] = StatusOk
            /\ resp[SeqProc] = FindBySession(carts, s)
            /\ resp[SeqProc].session_id = s
            /\ IF PriorCart(s) = NoDoc
               THEN resp[SeqProc].items = <<>>
               ELSE resp[SeqProc] = PriorCart(s)

\* C8: the second of two consecutive seed(force=false) calls reports already
\* seeded and leaves both collections, hence their counts, as the first left them.
C8_SeedIdempotent ==
    ( /\ Done(SeqProc, "seed") /\ ~req[SeqProc].force
      /\ prev.op = "seed" /\ ~prev.force )
    => /\ msg[SeqProc] = "Already seeded"
       /\ Len(before.category) > 0 /\ Len(before.product) > 0
       /\ Len(category) = Len(before.category)
       /\ Len(product) = Len(before.product)
       /\ category = before.category /\ product = before.product

\* C8 witness: the second call follows a first one that did seed the store.
C8_Witness ==
    /\ Done(SeqProc, "seed") /\ ~req[SeqProc].force
    /\ prev.op = "seed" /\ ~prev.force
    /\ nreq = 2
    /\ Len(category) = 3 /\ Len(product) = 4

\* C9: after a completed seed(force=true) the category collection holds exactly
\* the 3 reference categories and the product collection exactly the 4 reference
\* products, whatever they held before.
C9_ForceSeed ==
    (Done(SeqProc, "seed") /\ req[SeqProc].force) =>
        /\ msg[SeqProc] = "seeded"
        /\ Len(category) = 3 /\ Len(product) = 4
        /\ {category[i].slug : i \in DOMAIN category} = {"women", "men", "kids"}
        /\ {product[i].title : i \in DOMAIN product} =
              {"Silk Emerald Top", "Tailored Wool Trousers", "Kid's Party Dress",
               "Calf Leather Oxfords"}
        /\ category = categories /\ product = sample_products

\* C9 witness: the store held a manual category and a manual product before.
C9_Witness ==
    /\ Done(SeqProc, "seed") /\ req[SeqProc].force
    /\ before.product # <<>> /\ before.product[1] = ManualProduct
    /\ before.category # <<>> /\ before.category[1] = ManualCategory
    /\ Len(product) = 4

\* C10: no Cart document has two lines with the same sku.
C10_UniqueSkus ==
    \A c \in DOMAIN carts :
        \A i, j \in DOMAIN carts[c].items :
            carts[c].items[i].sku = carts[c].items[j].sku => i = j

====
